---- MODULE Spec2Model ----
(***************************************************************************)
(* Model of hotline/database/models.py: the six record types declared over *)
(* the shared database proxy `db`, the column conversions of their fields, *)
(* the constraints and indexes the declarations ask of the backend, and    *)
(* the SerializableField adapter.                                          *)
(***************************************************************************)
EXTENDS Integers, Sequences, FiniteSets, TLC

(* ------------------------------ bounds -------------------------------- *)

\* Rows stored, all tables and databases together, per specification.
MaxRows == 1
MaxRoundTripRows == 2
MaxHotlineRows == 3
MaxMemberRows == 3
MaxQueryRows == 2
MaxAuditRows == 3
\* Rows of the table holding the SerializableField(C) column.
MaxCells == 2
\* Largest reading of the wall clock (datetime.datetime.utcnow).
MaxClock == 2
\* Largest payload of an instance of the serialization-capable class C.
MaxPayload == 1

VARIABLES
    db,       \* the object behind the proxy `db`: 0 (None) or a connection
    store,    \* store[c][T]: rows of table T behind connection c, in insertion order
    written,  \* per stored row, the Python-side values it was last written with
    now,      \* the wall clock
    cell,     \* cell[r]: the stored content of a SerializableField(C) column, per row
    index,    \* index[c]: entries <<T, columns, key, id>> of the declared indexes
    result    \* outcome of the last call, as the caller sees it

vars == <<db, store, written, now, cell, index, result>>

(* ------------------------------ values -------------------------------- *)

\* Python-side and database-side values, tagged by kind.
Null == [k |-> "null", s |-> "", n |-> 0]
Text(s) == [k |-> "text", s |-> s, n |-> 0]
IntVal(n) == [k |-> "int", s |-> "", n |-> n]
Bool(b) == [k |-> "bool", s |-> "", n |-> IF b THEN 1 ELSE 0]
DateTime(t) == [k |-> "datetime", s |-> "", n |-> t]
\* datetime as the backend keeps it (ISO text of the instant t)
IsoText(t) == [k |-> "isotext", s |-> "", n |-> t]
\* an instance of a serialization-capable class, with payload n
Obj(n) == [k |-> "obj", s |-> "", n |-> n]
\* an exception raised by a conversion
Raise(e) == [k |-> "raise", s |-> e, n |-> 0]

IsRaise(v) == v.k = "raise"

Digits == <<"0", "1", "2", "3", "4", "5", "6", "7", "8", "9">>

\* str(value), as _StringField.adapt applies it to a value that is not text
Str(v) ==
    CASE v.k = "text" -> v.s
      [] v.k = "int" -> Digits[v.n + 1]
      [] v.k = "bool" -> IF v.n = 1 THEN "True" ELSE "False"
      [] v.k = "datetime" -> "datetime:" \o Digits[v.n + 1]
      [] v.k = "obj" -> "<C object " \o Digits[v.n + 1] \o ">"
      [] OTHER -> "None"

(* --------------------------- field types ------------------------------ *)

\* no default= given
NoDefault == [k |-> "nodefault", s |-> "", n |-> 0]
\* default=datetime.datetime.utcnow: called when the default is applied
UtcNow == [k |-> "utcnow", s |-> "", n |-> 0]

Field(type, null, unique, default) ==
    [type |-> type, null |-> null, unique |-> unique, default |-> default, to |-> ""]

TextField(null) == Field("text", null, FALSE, NoDefault)
CharField(null, unique, default) == Field("char", null, unique, default)
IntegerField == Field("int", FALSE, FALSE, NoDefault)
BooleanField == Field("bool", FALSE, FALSE, NoDefault)
DateTimeField(default) == Field("datetime", FALSE, FALSE, default)
ForeignKeyField(model, null) ==
    [type |-> "fk", null |-> null, unique |-> FALSE, default |-> NoDefault, to |-> model]

\* _StringField.adapt: text stays, anything else becomes str(value)
StringAdapt(v) == IF v.k = "null" THEN Null ELSE Text(Str(v))

\* int(value)
IntAdapt(v) ==
    CASE v.k = "null" -> Null
      [] v.k \in {"int", "bool"} -> IntVal(v.n)
      [] v.k = "text" /\ (\E i \in 1..Len(Digits) : Digits[i] = v.s) ->
            IntVal((CHOOSE i \in 1..Len(Digits) : Digits[i] = v.s) - 1)
      [] OTHER -> Raise("ValueError")

\* bool(value)
Truthy(v) ==
    CASE v.k \in {"int", "bool", "datetime"} -> v.n # 0
      [] v.k = "text" -> v.s # ""
      [] OTHER -> TRUE

\* Field.db_value of the field types used: what the backend is handed
DbValue(f, v) ==
    CASE f.type \in {"text", "char"} -> StringAdapt(v)
      [] f.type \in {"int", "fk"} -> IntAdapt(v)
      [] f.type = "bool" -> IF v.k = "null" THEN Null ELSE IntVal(IF Truthy(v) THEN 1 ELSE 0)
      [] f.type = "datetime" ->
            CASE v.k = "null" -> Null
              [] v.k = "datetime" -> IsoText(v.n)
              [] v.k = "text" -> v
              [] OTHER -> Raise("InterfaceError")

\* Field.python_value of the field types used: what a read hands back
PythonValue(f, v) ==
    CASE v.k = "null" -> Null
      [] f.type \in {"text", "char"} -> StringAdapt(v)
      [] f.type \in {"int", "fk"} -> IntAdapt(v)
      [] f.type = "bool" -> Bool(Truthy(v))
      [] f.type = "datetime" -> IF v.k = "isotext" THEN DateTime(v.n) ELSE v

(* ------------------------------ schema -------------------------------- *)

Number ==
    [number |-> TextField(FALSE),
     country |-> CharField(FALSE, FALSE, Text("US")),
     features |-> TextField(FALSE)]

\* Hotline with `slug` declared without unique=True
HotlineSlugNotUnique ==
    [name |-> TextField(FALSE),
     slug |-> CharField(FALSE, FALSE, NoDefault),
     primary_number |-> TextField(TRUE),
     primary_number_id |-> ForeignKeyField("Number", TRUE),
     country |-> CharField(FALSE, FALSE, Text("US")),
     voice_greeting |-> TextField(TRUE)]

Hotline ==
    [name |-> TextField(FALSE),
     slug |-> CharField(FALSE, TRUE, NoDefault),
     primary_number |-> TextField(TRUE),
     primary_number_id |-> ForeignKeyField("Number", TRUE),
     country |-> CharField(FALSE, FALSE, Text("US")),
     voice_greeting |-> TextField(TRUE)]

\* HotlineMember with `hotline` declared as a plain integer column
HotlineMemberNoForeignKey ==
    [hotline |-> IntegerField,
     name |-> TextField(FALSE),
     number |-> TextField(FALSE),
     verified |-> BooleanField]

HotlineMember ==
    [hotline |-> ForeignKeyField("Hotline", FALSE),
     name |-> TextField(FALSE),
     number |-> TextField(FALSE),
     verified |-> BooleanField]

HotlineAdmin ==
    [hotline |-> ForeignKeyField("Hotline", FALSE),
     user_id |-> CharField(TRUE, FALSE, NoDefault),
     user_name |-> TextField(TRUE),
     user_email |-> TextField(FALSE)]

\* AuditLog with `kind` declared as a BooleanField
AuditLogKindBoolean ==
    [timestamp |-> DateTimeField(UtcNow),
     kind |-> BooleanField,
     description |-> TextField(TRUE),
     hotline |-> ForeignKeyField("Hotline", TRUE),
     user |-> CharField(TRUE, FALSE, NoDefault),
     metadata |-> TextField(TRUE),
     reporter_number |-> TextField(TRUE)]

\* AuditLog with default=datetime.datetime.utcnow(): the instant of the import
AuditLogFixedDefault ==
    [timestamp |-> DateTimeField(DateTime(0)),
     kind |-> IntegerField,
     description |-> TextField(TRUE),
     hotline |-> ForeignKeyField("Hotline", TRUE),
     user |-> CharField(TRUE, FALSE, NoDefault),
     metadata |-> TextField(TRUE),
     reporter_number |-> TextField(TRUE)]

AuditLog ==
    [timestamp |-> DateTimeField(UtcNow),
     kind |-> IntegerField,
     description |-> TextField(TRUE),
     hotline |-> ForeignKeyField("Hotline", TRUE),
     user |-> CharField(TRUE, FALSE, NoDefault),
     metadata |-> TextField(TRUE),
     reporter_number |-> TextField(TRUE)]

BlockList ==
    [timestamp |-> DateTimeField(UtcNow),
     hotline |-> ForeignKeyField("Hotline", FALSE),
     number |-> TextField(FALSE),
     blocked_by |-> TextField(TRUE)]

Tables == {"Number", "Hotline", "HotlineMember", "HotlineAdmin", "AuditLog", "BlockList"}

Schema(T) ==
    CASE T = "Number" -> Number
      [] T = "Hotline" -> Hotline
      [] T = "HotlineMember" -> HotlineMember
      [] T = "HotlineAdmin" -> HotlineAdmin
      [] T = "AuditLog" -> AuditLog
      [] T = "BlockList" -> BlockList

\* Model.add_index(...): the column lists indexed, per table
Indexes(T) ==
    CASE T = "Number" -> {<<"number">>}
      [] T = "Hotline" -> {<<"slug">>, <<"primary_number">>}
      [] T = "HotlineMember" -> {<<"hotline", "verified">>, <<"number", "verified">>}
      [] T = "HotlineAdmin" -> {<<"user_id">>}
      [] T = "AuditLog" -> {<<"hotline", "timestamp">>}
      [] T = "BlockList" -> {}

(* ----------------------- the bound connection ------------------------- *)

\* The connections the startup code may hand to db.initialize().
Conns == {1, 2}

\* Whether the backend behind a connection checks foreign keys
\* (connection 1 does; connection 2 is SQLite without the pragma).
EnforcesForeignKeys(c) == c = 1

\* a handle that starts out bound to a default connection
ProxyObjDefault == IF db = 0 THEN 1 ELSE db

\* Proxy.obj: what `db` currently forwards to (0 while uninitialized)
ProxyObj == db

Uninitialized == ProxyObj = 0

(* ------------------------- rows and tables ---------------------------- *)

Range(seq) == {seq[i] : i \in 1..Len(seq)}

EmptyDatabase == [T \in Tables |-> <<>>]

Max(S) == IF S = {} THEN 0 ELSE CHOOSE x \in S : \A y \in S : y <= x

\* the next AutoField id of a table: one more than the largest stored
NextId(rows) == Max({r.id.n : r \in Range(rows)}) + 1

RowCount(c) ==
    Len(store[c]["Number"]) + Len(store[c]["Hotline"]) + Len(store[c]["HotlineMember"])
    + Len(store[c]["HotlineAdmin"]) + Len(store[c]["AuditLog"]) + Len(store[c]["BlockList"])

TotalRows == RowCount(1) + RowCount(2)

\* Model.__init__: the values given, and the field defaults for the rest
ApplyDefaults(T, vals) ==
    [f \in DOMAIN Schema(T) |->
        IF f \in DOMAIN vals THEN vals[f]
        ELSE LET d == Schema(T)[f].default
             IN  CASE d = UtcNow -> DateTime(now)
                   [] d = NoDefault -> Null
                   [] OTHER -> d]

\* the column values handed to the backend
Convert(T, vals) == [f \in DOMAIN vals |-> DbValue(Schema(T)[f], vals[f])]

\* the row a read hands back
PythonRow(T, row) ==
    [f \in DOMAIN row |-> IF f = "id" THEN row.id ELSE PythonValue(Schema(T)[f], row[f])]

ConversionError(conv) ==
    IF \E f \in DOMAIN conv : IsRaise(conv[f])
    THEN (CHOOSE v \in {conv[f] : f \in DOMAIN conv} : IsRaise(v)).s
    ELSE ""

NotNullViolation(T, conv) ==
    \E f \in DOMAIN conv : ~Schema(T)[f].null /\ conv[f] = Null

\* unique=True: no other row holds the same non-null value
UniqueViolation(T, conv, others) ==
    \E f \in DOMAIN conv :
        /\ Schema(T)[f].unique
        /\ conv[f] # Null
        /\ \E r \in others : r[f] = conv[f]

\* ForeignKeyField: a non-null reference must name a stored row of the target
ForeignKeyViolation(c, T, conv) ==
    /\ EnforcesForeignKeys(c)
    /\ \E f \in DOMAIN conv :
        /\ Schema(T)[f].type = "fk"
        /\ conv[f] # Null
        /\ \A r \in Range(store[c][Schema(T)[f].to]) : r.id # conv[f]

\* rows of other tables that reference row `id` of table T
Referenced(c, T, id) ==
    \E U \in Tables : \E f \in DOMAIN Schema(U) :
        /\ Schema(U)[f].type = "fk"
        /\ Schema(U)[f].to = T
        /\ \E r \in Range(store[c][U]) : r[f] = IntVal(id)

ConstraintError(c, T, conv, others) ==
    CASE NotNullViolation(T, conv) -> "IntegrityError: NOT NULL"
      [] UniqueViolation(T, conv, others) -> "IntegrityError: UNIQUE"
      [] ForeignKeyViolation(c, T, conv) -> "IntegrityError: FOREIGN KEY"
      [] OTHER -> ""

\* the entries a row has in the indexes declared with add_index
IndexEntries(T, row) ==
    {<<T, cols, [i \in 1..Len(cols) |-> row[cols[i]]], row.id.n>> : cols \in Indexes(T)}

WithId(conv, id) ==
    [f \in DOMAIN conv \cup {"id"} |-> IF f = "id" THEN IntVal(id) ELSE conv[f]]

Merge(row, conv) == [f \in DOMAIN row |-> IF f \in DOMAIN conv THEN conv[f] ELSE row[f]]

\* what the caller gets back: the status (an exception name, or "ok"), the id
\* or rows returned, and what was called (via: the proxy's object at the call)
Outcome(op, status, T, id, rows, arg) ==
    [op |-> op, status |-> status, table |-> T, id |-> id, rows |-> rows,
     arg |-> arg, via |-> db]

Position(rows, id) == CHOOSE i \in 1..Len(rows) : rows[i].id.n = id

Stored(rows, id) == \E i \in 1..Len(rows) : rows[i].id.n = id

Without(seq, i) == SubSeq(seq, 1, i - 1) \o SubSeq(seq, i + 1, Len(seq))

Fail(op, status, T, arg) ==
    /\ result' = Outcome(op, status, T, 0, {}, arg)
    /\ UNCHANGED <<db, store, written, now, cell, index>>

(* ------------------------------ actions ------------------------------- *)

\* a handle that refuses a second initialize()
InitializeOnce(c) ==
    IF db = 0
    THEN /\ db' = c
         /\ result' = Outcome("initialize", "ok", "", c, {}, <<>>)
         /\ UNCHANGED <<store, written, now, cell, index>>
    ELSE /\ result' = Outcome("initialize", "AlreadyInitialized", "", c, {}, <<>>)
         /\ UNCHANGED <<db, store, written, now, cell, index>>

\* db.initialize(c): the proxy forwards to c from now on
Initialize(c) ==
    /\ db' = c
    /\ result' = Outcome("initialize", "ok", "", c, {}, <<>>)
    /\ UNCHANGED <<store, written, now, cell, index>>

\* T.create(**vals)
Create(T, vals) ==
    IF Uninitialized THEN Fail("create", "AttributeError", T, vals)
    ELSE
      LET c == ProxyObj
          filled == ApplyDefaults(T, vals)
          conv == Convert(T, filled)
          id == NextId(store[c][T])
          row == WithId(conv, id)
      IN  IF ConversionError(conv) # "" THEN Fail("create", ConversionError(conv), T, vals)
          ELSE IF ConstraintError(c, T, conv, Range(store[c][T])) # ""
          THEN Fail("create", ConstraintError(c, T, conv, Range(store[c][T])), T, vals)
          ELSE
            /\ store' = [store EXCEPT ![c][T] = Append(@, row)]
            /\ written' = [written EXCEPT ![c][T] =
                             Append(@, [vals |-> filled, given |-> DOMAIN vals, at |-> now])]
            /\ index' = [index EXCEPT ![c] = @ \cup IndexEntries(T, row)]
            /\ result' = Outcome("create", "ok", T, id, {}, vals)
            /\ UNCHANGED <<db, now, cell>>

\* T.update(**vals).where(T.id == id).execute()
Update(T, id, vals) ==
    IF Uninitialized THEN Fail("update", "AttributeError", T, vals)
    ELSE
      LET c == ProxyObj
          rows == store[c][T]
          conv == Convert(T, vals)
      IN  IF ConversionError(conv) # "" THEN Fail("update", ConversionError(conv), T, vals)
          ELSE IF ~Stored(rows, id) THEN Fail("update", "ok", T, vals)
          ELSE
            LET i == Position(rows, id)
                others == {rows[j] : j \in (1..Len(rows)) \ {i}}
                row == Merge(rows[i], conv)
            IN  IF ConstraintError(c, T, conv, others) # ""
                THEN Fail("update", ConstraintError(c, T, conv, others), T, vals)
                ELSE
                  /\ store' = [store EXCEPT ![c][T][i] = row]
                  /\ written' = [written EXCEPT ![c][T][i] =
                        [vals |-> Merge(@.vals, vals), given |-> @.given \cup DOMAIN vals,
                         at |-> @.at]]
                  /\ index' = [index EXCEPT ![c] =
                        (@ \ IndexEntries(T, rows[i])) \cup IndexEntries(T, row)]
                  /\ result' = Outcome("update", "ok", T, id, {}, vals)
                  /\ UNCHANGED <<db, now, cell>>

\* T.delete_by_id(id)
Delete(T, id) ==
    IF Uninitialized THEN Fail("delete", "AttributeError", T, <<>>)
    ELSE
      LET c == ProxyObj
          rows == store[c][T]
      IN  IF ~Stored(rows, id) THEN Fail("delete", "ok", T, <<>>)
          ELSE IF EnforcesForeignKeys(c) /\ Referenced(c, T, id)
          THEN Fail("delete", "IntegrityError: FOREIGN KEY", T, <<>>)
          ELSE
            LET i == Position(rows, id)
            IN  /\ store' = [store EXCEPT ![c][T] = Without(@, i)]
                /\ written' = [written EXCEPT ![c][T] = Without(@, i)]
                /\ index' = [index EXCEPT ![c] = @ \ IndexEntries(T, rows[i])]
                /\ result' = Outcome("delete", "ok", T, id, {}, <<>>)
                /\ UNCHANGED <<db, now, cell>>

\* the row T.get_by_id(id) hands back, read through connection c
ReadById(c, T, id) == PythonRow(T, store[c][T][Position(store[c][T], id)])

\* T.get_by_id(id)
GetById(T, id) ==
    IF Uninitialized THEN Fail("get", "AttributeError", T, <<>>)
    ELSE IF ~Stored(store[ProxyObj][T], id) THEN Fail("get", "DoesNotExist", T, <<>>)
    ELSE
      /\ result' = Outcome("get", "ok", T, id, {ReadById(ProxyObj, T, id)}, <<>>)
      /\ UNCHANGED <<db, store, written, now, cell, index>>

\* a lookup that matches on the first column only
LookupFirstColumn(c, T, cols, key) ==
    {r.id.n : r \in {x \in Range(store[c][T]) : x[cols[1]] = key[1]}}

\* the ids of the rows of T whose columns `cols` hold `key`: looked up in the
\* index on cols when one is declared, found by a scan of the table otherwise
Lookup(c, T, cols, key) ==
    IF cols \in Indexes(T)
    THEN {e[4] : e \in {x \in index[c] : x[1] = T /\ x[2] = cols /\ x[3] = key}}
    ELSE {r.id.n : r \in {x \in Range(store[c][T]) :
                            \A i \in 1..Len(cols) : x[cols[i]] = key[i]}}

\* T.select().where(T.<cols[1]> == key[1], T.<cols[2]> == key[2])
Select(T, cols, key) ==
    IF Uninitialized THEN Fail("select", "AttributeError", T, <<cols, key>>)
    ELSE
      LET c == ProxyObj
          conv == [i \in 1..Len(cols) |-> DbValue(Schema(T)[cols[i]], key[i])]
          ids == Lookup(c, T, cols, conv)
      IN  /\ result' = Outcome("select", "ok", T, 0,
                                {PythonRow(T, r) : r \in {x \in Range(store[c][T]) : x.id.n \in ids}},
                                <<cols, key>>)
          /\ UNCHANGED <<db, store, written, now, cell, index>>

\* time passes
Tick ==
    /\ now < MaxClock
    /\ now' = now + 1
    /\ UNCHANGED <<db, store, written, cell, index, result>>

(* ------------------------ SerializableField --------------------------- *)

\* The serialization-capable class C the field is parameterized by.
Objects == {Obj(n) : n \in 0..MaxPayload}

\* x.serialize()
Serialize(x) == Text("C:" \o Digits[x.n + 1])

\* C.deserialize(text): the instance the text stands for, or C's error
Deserialize(t) ==
    IF t.k # "text" THEN Raise("TypeError")
    ELSE IF \E x \in Objects : Serialize(x) = t
    THEN CHOOSE x \in Objects : Serialize(x) = t
    ELSE Raise("DeserializeError")

\* SerializableField.db_value: value.serialize()
db_value(value) ==
    IF value.k = "obj" THEN Serialize(value) ELSE Raise("AttributeError")

\* a python_value that answers None for text C does not accept
python_valueOrNone(value) ==
    IF IsRaise(Deserialize(value)) THEN Null ELSE Deserialize(value)

\* SerializableField.python_value: self._cls.deserialize(value)
python_value(value) == Deserialize(value)

\* a write of x to the column of row r, through the field
FieldStore(r, x) ==
    LET t == db_value(x)
    IN  /\ cell' = IF IsRaise(t) THEN cell ELSE [cell EXCEPT ![r] = t]
        /\ result' = Outcome("store", IF IsRaise(t) THEN t.s ELSE "ok", "", r, {}, x)
        /\ UNCHANGED <<db, store, written, now, index>>

\* a read of the column of row r, through the field
FieldLoad(r) ==
    LET v == python_value(cell[r])
    IN  /\ result' = Outcome("load", IF IsRaise(v) THEN v.s ELSE "ok", "", r,
                              IF IsRaise(v) THEN {} ELSE {v}, cell[r])
        /\ UNCHANGED <<db, store, written, now, cell, index>>

\* text put in the column by another writer of the table
RawStore(r, t) ==
    /\ cell' = [cell EXCEPT ![r] = t]
    /\ result' = Outcome("raw", "ok", "", r, {}, t)
    /\ UNCHANGED <<db, store, written, now, index>>

(* --------------------------- specifications --------------------------- *)

NoResult == [op |-> "none", status |-> "ok", table |-> "", id |-> 0, rows |-> {},
             arg |-> <<>>, via |-> 0]

InitData ==
    /\ store = [c \in Conns |-> EmptyDatabase]
    /\ written = [c \in Conns |-> EmptyDatabase]
    /\ index = [c \in Conns |-> {}]
    /\ now = 0
    /\ cell = [r \in 1..MaxCells |-> Null]
    /\ result = NoResult

\* the module is imported: db = peewee.Proxy(), nothing bound yet
Init == db = 0 /\ InitData

\* the startup code has bound `db` to a connection
InitBound == db \in Conns /\ InitData

(* ---- Spec: the handle's lifecycle and the six record types ---- *)

Ids == 1..MaxRows

\* One record per record type, as a caller writes it.
Samples(T) ==
    CASE T = "Number" -> {[number |-> Text("555"), features |-> Text("sms")]}
      [] T = "Hotline" -> {[name |-> Text("n"), slug |-> Text("a")]}
      [] T = "HotlineMember" ->
            {[hotline |-> IntVal(1), name |-> Text("m"), number |-> Text("555"),
              verified |-> Bool(TRUE)]}
      [] T = "HotlineAdmin" -> {[hotline |-> IntVal(1), user_email |-> Text("e")]}
      [] T = "AuditLog" -> {[kind |-> IntVal(1)]}
      [] T = "BlockList" -> {[hotline |-> IntVal(1), number |-> Text("555")]}

\* One update per record type.
Updates(T) ==
    CASE T = "Number" -> {[features |-> Obj(0)]}
      [] T = "Hotline" -> {[voice_greeting |-> Text("hi")]}
      [] T = "HotlineMember" -> {[verified |-> Bool(FALSE)]}
      [] T = "HotlineAdmin" -> {[user_name |-> Text("o")]}
      [] T = "AuditLog" -> {[metadata |-> Text("[]")]}
      [] T = "BlockList" -> {[blocked_by |-> Text("u")]}

Next ==
    \/ \E c \in Conns : Initialize(c)
    \/ \E T \in Tables : \E vals \in Samples(T) : TotalRows < MaxRows /\ Create(T, vals)
    \/ \E T \in Tables : \E id \in Ids : \E vals \in Updates(T) : Update(T, id, vals)
    \/ \E T \in Tables : \E id \in Ids : Delete(T, id)
    \/ \E T \in Tables : \E id \in Ids : GetById(T, id)

Spec == Init /\ [][Next]_vars

(* ---- SpecRoundTrip: records written and read back ---- *)

\* The field values the callers write, per record type: every field with a
\* value of its own type, nullable fields given and omitted, and `features`
\* and `metadata` given as text and as an instance of C.
Inputs(T) ==
    CASE T = "Number" ->
            {[number |-> Text("555"), features |-> Text("sms")],
             [number |-> Text("556"), country |-> Text("CA"), features |-> Obj(1)]}
      [] T = "Hotline" ->
            {[name |-> Text("n"), slug |-> Text("a")],
             [name |-> Text("n"), slug |-> Text("b"), primary_number |-> Text("555"),
              primary_number_id |-> IntVal(1), country |-> Text("CA"),
              voice_greeting |-> Text("hi")]}
      [] T = "HotlineMember" ->
            {[hotline |-> IntVal(1), name |-> Text("m"), number |-> Text("555"),
              verified |-> Bool(v)] : v \in BOOLEAN}
      [] T = "HotlineAdmin" ->
            {[hotline |-> IntVal(1), user_email |-> Text("e")],
             [hotline |-> IntVal(1), user_id |-> Text("u"), user_name |-> Text("n"),
              user_email |-> Text("e")]}
      [] T = "AuditLog" ->
            {[kind |-> IntVal(1)]} \cup
            {[timestamp |-> DateTime(1), kind |-> IntVal(2), description |-> Text("d"),
              hotline |-> IntVal(1), user |-> Text("u"), metadata |-> m,
              reporter_number |-> Text("555")] : m \in {Text("{}"), Obj(0)}}
      [] T = "BlockList" ->
            {[hotline |-> IntVal(1), number |-> Text("555")],
             [timestamp |-> DateTime(1), hotline |-> IntVal(1), number |-> Text("556"),
              blocked_by |-> Text("u")]}

NextRoundTrip ==
    \/ \E T \in Tables : \E vals \in Inputs(T) :
            TotalRows < MaxRoundTripRows /\ Create(T, vals)
    \/ \E T \in Tables : \E id \in 1..MaxRoundTripRows : \E vals \in Updates(T) :
            Update(T, id, vals)
    \/ \E T \in Tables : \E id \in 1..MaxRoundTripRows : GetById(T, id)

SpecRoundTrip == InitBound /\ [][NextRoundTrip]_vars

(* ---- SpecHotline: Numbers and Hotlines created and updated ---- *)

NumberInputs == {[number |-> Text(n), features |-> Text("sms")] : n \in {"555", "556"}}

HotlineInputs ==
    {[name |-> Text("n"), slug |-> Text(sl), primary_number |-> pn, primary_number_id |-> pid] :
        sl \in {"a", "b"}, pn \in {Null, Text("555")}, pid \in {Null, IntVal(1)}}

HotlineUpdates ==
    {[slug |-> Text(sl)] : sl \in {"a", "b"}} \cup {[primary_number |-> Text("556")]}

NextHotline ==
    \/ \E vals \in NumberInputs : TotalRows < MaxHotlineRows /\ Create("Number", vals)
    \/ \E vals \in HotlineInputs : TotalRows < MaxHotlineRows /\ Create("Hotline", vals)
    \/ \E id \in 1..MaxHotlineRows : \E vals \in HotlineUpdates : Update("Hotline", id, vals)
    \/ \E id \in 1..MaxHotlineRows : Update("Number", id, [number |-> Text("556")])

SpecHotline == InitBound /\ [][NextHotline]_vars

(* ---- SpecMember: members and admins of hotlines ---- *)

MemberSamples ==
    {[hotline |-> IntVal(h), name |-> Text("m"), number |-> Text("555"), verified |-> Bool(TRUE)] :
        h \in 1..2}

AdminInputs == {[hotline |-> IntVal(h), user_email |-> Text("e")] : h \in 1..2}

NextMember ==
    \/ \E sl \in {"a", "b"} :
            TotalRows < MaxMemberRows /\ Create("Hotline", [name |-> Text("n"), slug |-> Text(sl)])
    \/ \E vals \in MemberSamples : TotalRows < MaxMemberRows /\ Create("HotlineMember", vals)
    \/ \E vals \in AdminInputs : TotalRows < MaxMemberRows /\ Create("HotlineAdmin", vals)
    \/ \E id \in 1..MaxMemberRows : \E h \in 1..2 :
            Update("HotlineMember", id, [hotline |-> IntVal(h)])
    \/ \E id \in 1..MaxMemberRows : Delete("Hotline", id)

SpecMember == InitBound /\ [][NextMember]_vars

(* ---- SpecQuery: members stored in any order, and queried ---- *)

MemberInputs ==
    {[hotline |-> IntVal(h), name |-> Text("m"), number |-> Text(n), verified |-> Bool(v)] :
        h \in 1..2, n \in {"555", "556"}, v \in BOOLEAN}

MemberQueries ==
    {<<(<<"hotline", "verified">>), <<IntVal(h), Bool(v)>> >> : h \in 1..2, v \in BOOLEAN}
    \cup {<<(<<"number", "verified">>), <<Text(n), Bool(v)>> >> : n \in {"555", "556"}, v \in BOOLEAN}

NextQuery ==
    \/ TotalRows < MaxQueryRows /\ Create("Hotline", [name |-> Text("n"), slug |-> Text("a")])
    \/ \E vals \in MemberInputs : TotalRows < MaxQueryRows /\ Create("HotlineMember", vals)
    \/ \E id \in 1..MaxQueryRows : Update("HotlineMember", id, [verified |-> Bool(TRUE)])
    \/ \E id \in 1..MaxQueryRows : Delete("HotlineMember", id)
    \/ \E q \in MemberQueries : Select("HotlineMember", q[1], q[2])

SpecQuery == InitBound /\ [][NextQuery]_vars

(* ---- SpecAudit: audit log and block list entries over time ---- *)

AuditInputs == {[kind |-> IntVal(1)], [kind |-> IntVal(1), timestamp |-> DateTime(0)]}

BlockInputs ==
    {[hotline |-> IntVal(1), number |-> Text("555")],
     [hotline |-> IntVal(1), number |-> Text("555"), timestamp |-> DateTime(0)]}

NextAudit ==
    \/ Tick
    \/ TotalRows < MaxAuditRows /\ Create("Hotline", [name |-> Text("n"), slug |-> Text("a")])
    \/ \E vals \in AuditInputs : TotalRows < MaxAuditRows /\ Create("AuditLog", vals)
    \/ \E vals \in BlockInputs : TotalRows < MaxAuditRows /\ Create("BlockList", vals)

SpecAudit == InitBound /\ [][NextAudit]_vars

(* ---- SpecField: a SerializableField(C, null=True) column ---- *)

\* what other writers leave in the column: text C accepts, text it does not, NULL
RawTexts == {Text("C:0"), Text("C:9"), Text("garbage"), Null}

NextField ==
    \/ \E r \in 1..MaxCells : \E x \in Objects \cup {Null} : FieldStore(r, x)
    \/ \E r \in 1..MaxCells : FieldLoad(r)
    \/ \E r \in 1..MaxCells : \E t \in RawTexts : RawStore(r, t)

SpecField == InitBound /\ [][NextField]_vars

(* ------------------------------ claims -------------------------------- *)

\* C1: while `db` is not bound to a connection, every read or write through a
\* record type fails at once with the proxy's error (AttributeError: "Cannot
\* use uninitialized Proxy"); nothing is stored and nothing is returned.
C1_UnboundUseFails ==
    [][(db = 0 /\ db' = 0) =>
          /\ result'.status = "AttributeError"
          /\ result'.rows = {}
          /\ result'.id = 0
          /\ store' = store /\ index' = index]_vars

\* a create and a read were attempted on the unbound handle
C1_Witness ==
    /\ db = 0
    /\ result.via = 0
    /\ result.op \in {"create", "get"}
    /\ result.status = "AttributeError"

\* C2 as stated: a bind on an already bound handle is rejected and the handle
\* keeps pointing at the first connection.
C2_SecondBindRejected ==
    [][(db # 0 /\ result'.op = "initialize") =>
          (db' = db /\ result'.status # "ok")]_vars

\* C2 amended: a bind is never rejected, bound or not: the handle forwards to
\* the connection given last, and the bind itself stores and removes nothing.
C2_RebindReplaces ==
    [][result'.op = "initialize" =>
          /\ result'.status = "ok"
          /\ db' = result'.id
          /\ store' = store /\ index' = index]_vars

\* a Hotline was written through one connection and the handle then bound to another
C2_Witness ==
    /\ result.op = "initialize"
    /\ result.via # 0
    /\ result.via # db
    /\ store[result.via]["Hotline"] # <<>>

AllRows == {<<c, T, i>> \in Conns \X Tables \X (1..MaxRoundTripRows) : i <= Len(store[c][T])}

\* C4 as stated: every stored record reads back, field by field, as the values
\* it was written with, an instance of C in `features` or `metadata` included.
C4_RoundTripAll ==
    \A x \in AllRows :
        LET r == ReadById(x[1], x[2], store[x[1]][x[2]][x[3]].id.n)
            w == written[x[1]][x[2]][x[3]].vals
        IN  \A f \in DOMAIN w : r[f] = w[f]

\* C4 amended: every field written with a value of the column's own type (text,
\* integer, boolean, datetime, or null where nullable) reads back equal;
\* `features` and `metadata` are plain text columns, and an instance of C
\* written there reads back as the text str(instance), not as the instance.
C4_RoundTripNative ==
    \A x \in AllRows :
        LET r == ReadById(x[1], x[2], store[x[1]][x[2]][x[3]].id.n)
            w == written[x[1]][x[2]][x[3]].vals
        IN  \A f \in DOMAIN w :
                IF w[f].k = "obj" THEN r[f] = Text(Str(w[f])) ELSE r[f] = w[f]

\* a Number written with an instance of C as `features` was read back
C4_Witness ==
    /\ result.op = "get"
    /\ result.status = "ok"
    /\ result.table = "Number"
    /\ \E r \in result.rows : r.features = Text(Str(Obj(1)))

SlugsDistinct ==
    \A c \in Conns : \A i, j \in 1..Len(store[c]["Hotline"]) :
        store[c]["Hotline"][i].slug = store[c]["Hotline"][j].slug => i = j

\* C3: no two stored Hotlines ever share a slug, and a create of a Hotline
\* whose slug is already stored fails with a uniqueness violation and leaves
\* the stored Hotlines as they were.
C3_UniqueSlug ==
    /\ []SlugsDistinct
    /\ [][(/\ result'.op = "create"
           /\ result'.table = "Hotline"
           /\ \E r \in Range(store[db]["Hotline"]) : r.slug = result'.arg.slug) =>
              (result'.status = "IntegrityError: UNIQUE" /\ store' = store)]_vars

\* a create was refused for its slug while a Hotline with that slug is stored
C3_Witness ==
    /\ result.op = "create"
    /\ result.table = "Hotline"
    /\ result.status = "IntegrityError: UNIQUE"
    /\ \E r \in Range(store[db]["Hotline"]) : r.slug = result.arg.slug

\* C9: every Hotline with a non-null primary_number_id has primary_number equal
\* to the `number` of the Number that primary_number_id references.
C9_PrimaryNumberConsistent ==
    \A c \in Conns : \A h \in Range(store[c]["Hotline"]) :
        \A n \in Range(store[c]["Number"]) :
            n.id = h.primary_number_id => h.primary_number = n.number

ReferencesHold(c) ==
    \A T \in {"HotlineMember", "HotlineAdmin"} : \A r \in Range(store[c][T]) :
        \E h \in Range(store[c]["Hotline"]) : h.id = r.hotline

DanglingCreate ==
    /\ result'.op = "create"
    /\ result'.table \in {"HotlineMember", "HotlineAdmin"}
    /\ \A h \in Range(store[db]["Hotline"]) : h.id # result'.arg.hotline

\* C6 as stated: a create of a HotlineMember or HotlineAdmin that names no
\* stored Hotline fails with a foreign-key violation and stores nothing, and
\* every stored member and admin references a stored Hotline.
C6_ForeignKeyAlways ==
    /\ [](\A c \in Conns : ReferencesHold(c))
    /\ [][DanglingCreate =>
            (result'.status = "IntegrityError: FOREIGN KEY" /\ store' = store)]_vars

\* C6 amended: the same, behind a connection whose backend enforces foreign keys.
C6_ForeignKeyWhenEnforced ==
    /\ [](\A c \in Conns : EnforcesForeignKeys(c) => ReferencesHold(c))
    /\ [][(DanglingCreate /\ EnforcesForeignKeys(db)) =>
            (result'.status = "IntegrityError: FOREIGN KEY" /\ store' = store)]_vars

\* behind the enforcing connection, a member naming no Hotline was refused
\* while another member of a stored Hotline is stored
C6_Witness ==
    /\ EnforcesForeignKeys(db)
    /\ result.op = "create"
    /\ result.table = "HotlineMember"
    /\ result.status = "IntegrityError: FOREIGN KEY"
    /\ store[db]["HotlineMember"] # <<>>

\* C8: a query of HotlineMember by (hotline, verified) or by (number, verified)
\* returns exactly the stored members written with both queried values, however
\* the members came to be stored (in any order of inserts, updates and deletes).
C8_QueryExact ==
    (result.op = "select" /\ result.table = "HotlineMember") =>
        LET c == result.via
            cols == result.arg[1]
            key == result.arg[2]
            rows == store[c]["HotlineMember"]
            match == {i \in 1..Len(rows) :
                        \A k \in 1..Len(cols) : written[c]["HotlineMember"][i].vals[cols[k]] = key[k]}
        IN  /\ {r.id.n : r \in result.rows} = {rows[i].id.n : i \in match}
            /\ Cardinality(result.rows) = Cardinality(match)
            /\ \A r \in result.rows : \A k \in 1..Len(cols) : r[cols[k]] = key[k]

\* a query returned some of the stored members and left another out
C8_Witness ==
    /\ result.op = "select"
    /\ result.rows # {}
    /\ Cardinality(result.rows) < Len(store[result.via]["HotlineMember"])
    /\ \E r \in result.rows : r.id.n > 1

Stamped == {"AuditLog", "BlockList"}

Defaulted(c, T, i) == "timestamp" \notin written[c][T][i].given

C5_FieldRoundTrip ==
    result.op = "store" =>
        /\ result.status = "ok"
        /\ python_value(cell[result.id]) = result.arg
        /\ result.arg # Null => cell[result.id] = Serialize(result.arg)

\* C10: a read of stored content that C.deserialize does not accept fails with
\* the error C raised, returns nothing in its place, and leaves the stored
\* content as it was.
C10_DeserializeErrorPropagates ==
    [][result'.op = "load" =>
          /\ cell' = cell
          /\ IsRaise(Deserialize(cell[result'.id])) =>
                /\ result'.status = Deserialize(cell[result'.id]).s
                /\ result'.rows = {}]_vars

\* a read of text C does not accept has failed
C10_Witness ==
    /\ result.op = "load"
    /\ result.status = "DeserializeError"
    /\ cell[result.id] = Text("garbage")
====
